---- MODULE Spec2Model ----
(***************************************************************************)
(* State-machine model of the migration framework of many-migration        *)
(* (src/src/many-migration/src/lib.rs): one MigrationSet built by          *)
(* MigrationSet::load and then driven by update_at_height, hotfix and the  *)
(* per-migration enable / disable switches.                                *)
(***************************************************************************)
EXTENDS Integers, Sequences, FiniteSets, TLC

(***************************************************************************)
(* Bounds of the model.                                                    *)
(***************************************************************************)
\* activation heights of the configuration range over 0..MaxAct, the block
\* heights given to load / update_at_height / hotfix over 0..MaxAct+1
MaxAct == 1
\* longest configuration (number of SingleMigrationConfig entries)
MaxConfig == 2
\* the count of initialize invocations of a migration saturates here
MaxCount == 2

ActHeights == 0..MaxAct
Heights == 0..(MaxAct + 1)
\* the byte strings handed to hotfix
Bytes == { <<>>, << 1 >> }

(***************************************************************************)
(* The registry: the compiled-in descriptors (InnerMigration).  Names are  *)
(* strings; AllNames lists every name a configuration may use in the       *)
(* lexicographic order a BTreeMap<String, _> iterates them.                *)
(***************************************************************************)
AllNames == <<"m1", "m2", "m3">>

NameSet == {AllNames[i] : i \in 1..Len(AllNames)}

Rank(name) == CHOOSE i \in 1..Len(AllNames) : AllNames[i] = name

new_initialize_update(name) == [name |-> name, type |-> "Regular"]

new_hotfix(name) == [name |-> name, type |-> "Hotfix"]

Registry == << new_initialize_update("m3"), new_hotfix("m2"), new_initialize_update("m1") >>

\* Option<_> and Result<_, _>
None == [some |-> FALSE]

Some(v) == [some |-> TRUE, value |-> v]

Ok(v) == [ok |-> TRUE, value |-> v]

Err(e) == [ok |-> FALSE, error |-> e]

Unit == "()"

\* the error value E a hook of migration `name` returns when it fails
HookError(name, hook) == <<"E", name, hook>>

\* one hook invocation, as recorded in the trace of a call
Call(name, hook) == [name |-> name, hook |-> hook]

\* no hook ran
NoRun == [calls |-> <<>>, result |-> Ok(Unit)]

\* a storage hook (initialize_fn / update_fn) ran
RunFnPtr(name, hook, fails) ==
    [calls |-> << Call(name, hook) >>,
     result |-> IF fails THEN Err(HookError(name, hook)) ELSE Ok(Unit)]

(***************************************************************************)
(* Sorted iteration of a BTreeMap: its keys in ascending order.            *)
(***************************************************************************)
RECURSIVE SortedKeys(_)
SortedKeys(S) ==
    IF S = {} THEN <<>>
    ELSE LET least == CHOOSE n \in S : \A o \in S : Rank(n) <= Rank(o)
         IN  << least >> \o SortedKeys(S \ {least})

EmptyMap == [n \in {} |-> None]

Put(map, k, v) == [n \in (DOMAIN map) \cup {k} |-> IF n = k THEN v ELSE map[n]]

(***************************************************************************)
(* InnerMigration: dispatch on the kind of the descriptor.                 *)
(***************************************************************************)
Inner_initialize(migration, fails) ==
    CASE migration.type = "Regular" -> RunFnPtr(migration.name, "initialize", fails)
      [] migration.type = "Hotfix" -> NoRun
      [] OTHER -> NoRun

Inner_update(migration, fails) ==
    CASE migration.type = "Regular" -> RunFnPtr(migration.name, "update", fails)
      [] migration.type = "Hotfix" -> NoRun
      [] OTHER -> NoRun

\* the FnByte of the Hotfix descriptor: a transform that does not apply to
\* the empty byte string and rewrites every other one
hotfix_fn(b) == IF b = <<>> THEN None ELSE Some(<< 0 >> \o b)

Inner_hotfix(migration, b) ==
    CASE migration.type = "Regular" -> [calls |-> <<>>, result |-> None]
      [] migration.type = "Hotfix" ->
            [calls |-> << Call(migration.name, "hotfix") >>, result |-> hotfix_fn(b)]
      [] OTHER -> [calls |-> <<>>, result |-> None]

(***************************************************************************)
(* Migration: a descriptor bound to its metadata, with the two flags.      *)
(***************************************************************************)
\* a variant that ignores metadata.disabled
Migration_new_Enabled(migration, metadata) ==
    [migration |-> migration,
     metadata |-> metadata,
     enabled |-> TRUE,
     active |-> FALSE]

Migration_new(migration, metadata) ==
    [migration |-> migration,
     metadata |-> metadata,
     enabled |-> ~metadata.disabled,
     active |-> FALSE]

is_enabled(self) == self.enabled

is_active(self) == self.active

is_regular(self) == self.migration.type = "Regular"

is_hotfix(self) == self.migration.type = "Hotfix"

\* a variant that marks the migration active only once initialize succeeded
maybe_initialize_update_at_height_ActiveOnSuccess(self, block_height, fails) ==
    IF is_enabled(self)
    THEN IF block_height = self.metadata.block_height /\ ~self.active
         THEN LET r == Inner_initialize(self.migration, fails)
              IN  [self |-> IF r.result.ok THEN [self EXCEPT !.active = TRUE] ELSE self,
                   calls |-> r.calls, result |-> r.result]
         ELSE IF block_height > self.metadata.block_height
         THEN LET r == Inner_update(self.migration, fails)
              IN  [self |-> self, calls |-> r.calls, result |-> r.result]
         ELSE [self |-> self, calls |-> <<>>, result |-> Ok(Unit)]
    ELSE [self |-> self, calls |-> <<>>, result |-> Ok(Unit)]

\* a variant whose update branch is taken from the activation height on
maybe_initialize_update_at_height_GeUpdate(self, block_height, fails) ==
    IF is_enabled(self)
    THEN IF block_height = self.metadata.block_height /\ ~self.active
         THEN LET r == Inner_initialize(self.migration, fails)
              IN  [self |-> [self EXCEPT !.active = TRUE],
                   calls |-> r.calls, result |-> r.result]
         ELSE IF block_height >= self.metadata.block_height
         THEN LET r == Inner_update(self.migration, fails)
              IN  [self |-> self, calls |-> r.calls, result |-> r.result]
         ELSE [self |-> self, calls |-> <<>>, result |-> Ok(Unit)]
    ELSE [self |-> self, calls |-> <<>>, result |-> Ok(Unit)]

\* a variant that disables a migration whose hook returned an error
maybe_initialize_update_at_height_DisableOnError(self, block_height, fails) ==
    IF is_enabled(self)
    THEN IF block_height = self.metadata.block_height /\ ~self.active
         THEN LET r == Inner_initialize(self.migration, fails)
              IN  [self |-> [self EXCEPT !.active = TRUE, !.enabled = r.result.ok],
                   calls |-> r.calls, result |-> r.result]
         ELSE IF block_height > self.metadata.block_height
         THEN LET r == Inner_update(self.migration, fails)
              IN  [self |-> [self EXCEPT !.enabled = r.result.ok],
                   calls |-> r.calls, result |-> r.result]
         ELSE [self |-> self, calls |-> <<>>, result |-> Ok(Unit)]
    ELSE [self |-> self, calls |-> <<>>, result |-> Ok(Unit)]

\* a variant that marks the migration active when it runs above its height
maybe_initialize_update_at_height_LateActivate(self, block_height, fails) ==
    IF is_enabled(self)
    THEN IF block_height = self.metadata.block_height /\ ~self.active
         THEN LET r == Inner_initialize(self.migration, fails)
              IN  [self |-> [self EXCEPT !.active = TRUE],
                   calls |-> r.calls, result |-> r.result]
         ELSE IF block_height > self.metadata.block_height
         THEN LET r == Inner_update(self.migration, fails)
              IN  [self |-> [self EXCEPT !.active = TRUE],
                   calls |-> r.calls, result |-> r.result]
         ELSE [self |-> self, calls |-> <<>>, result |-> Ok(Unit)]
    ELSE [self |-> self, calls |-> <<>>, result |-> Ok(Unit)]

maybe_initialize_update_at_height(self, block_height, fails) ==
    IF is_enabled(self)
    THEN IF block_height = self.metadata.block_height /\ ~self.active
         THEN LET r == Inner_initialize(self.migration, fails)
              IN  [self |-> [self EXCEPT !.active = TRUE],
                   calls |-> r.calls, result |-> r.result]
         ELSE IF block_height > self.metadata.block_height
         THEN LET r == Inner_update(self.migration, fails)
              IN  [self |-> self, calls |-> r.calls, result |-> r.result]
         ELSE [self |-> self, calls |-> <<>>, result |-> Ok(Unit)]
    ELSE [self |-> self, calls |-> <<>>, result |-> Ok(Unit)]

\* a variant of the direct entry point that runs the hook once only
Migration_initialize_OnceOnly(self, block_height, fails) ==
    IF is_enabled(self) /\ block_height = self.metadata.block_height /\ ~self.active
    THEN Inner_initialize(self.migration, fails)
    ELSE NoRun

\* the direct entry points of one migration; they take &self
Migration_initialize(self, block_height, fails) ==
    IF is_enabled(self) /\ block_height = self.metadata.block_height
    THEN Inner_initialize(self.migration, fails)
    ELSE NoRun

Migration_update(self, block_height, fails) ==
    IF is_enabled(self) /\ block_height > self.metadata.block_height
    THEN Inner_update(self.migration, fails)
    ELSE NoRun

\* a variant that keeps applying the transform above the activation height
Migration_hotfix_AtOrAbove(self, b, block_height) ==
    IF is_enabled(self) /\ self.metadata.block_height <= block_height
    THEN Inner_hotfix(self.migration, b)
    ELSE [calls |-> <<>>, result |-> None]

\* a variant that applies the transform only once the migration is active
Migration_hotfix_WhenActive(self, b, block_height) ==
    IF is_enabled(self) /\ is_active(self) /\ self.metadata.block_height = block_height
    THEN Inner_hotfix(self.migration, b)
    ELSE [calls |-> <<>>, result |-> None]

Migration_hotfix(self, b, block_height) ==
    IF is_enabled(self) /\ self.metadata.block_height = block_height
    THEN Inner_hotfix(self.migration, b)
    ELSE [calls |-> <<>>, result |-> None]

\* a variant that also forgets that the activation height was reached
disable_ClearsActive(self) == [self EXCEPT !.enabled = FALSE, !.active = FALSE]

disable(self) == [self EXCEPT !.enabled = FALSE]

\* a variant that makes the migration due for initialisation again
enable_Reactivates(self) == [self EXCEPT !.enabled = TRUE, !.active = FALSE]

enable(self) == [self EXCEPT !.enabled = TRUE]

(***************************************************************************)
(* MigrationConfig.                                                        *)
(***************************************************************************)
Metadata(block_height, disabled) == [block_height |-> block_height, disabled |-> disabled]

SingleMigrationConfig(name, metadata) == [name |-> name, metadata |-> metadata]

\* strict is an Option<bool>: None reads as false
is_strict(config) == IF config.strict.some THEN config.strict.value ELSE FALSE

(***************************************************************************)
(* MigrationSet::load.                                                     *)
(***************************************************************************)
\* the name -> descriptor index built from the linear registry
RECURSIVE RegistryMap(_)
RegistryMap(registry) ==
    IF registry = <<>> THEN EmptyMap
    ELSE LET m == registry[Len(registry)]
             rest == RegistryMap(SubSeq(registry, 1, Len(registry) - 1))
         IN  Put(rest, m.name, m)

UnsupportedMigration(name) == << "Unsupported migration '", name, "'" >>

MissingMigration(name) == << "Migration Config is missing migration \"", name, "\"" >>

MissingMigrations(names) == << "Migration Config is missing migrations ", names >>

\* a variant that drops the entries whose name the registry does not have
RECURSIVE CollectInner_SkipUnknown(_, _, _)
CollectInner_SkipUnknown(migrations, registry, acc) ==
    IF migrations = <<>> THEN Ok(acc)
    ELSE LET config == Head(migrations)
         IN  IF config.name \notin DOMAIN registry
             THEN CollectInner_SkipUnknown(Tail(migrations), registry, acc)
             ELSE CollectInner_SkipUnknown(Tail(migrations), registry,
                               Put(acc, config.name,
                                   Migration_new(registry[config.name], config.metadata)))

\* resolve every entry in configuration order, stopping at the first
\* unresolved name; later entries overwrite earlier ones of the same name
\* a variant that keeps the first entry of a name and drops the later ones
RECURSIVE CollectInner_KeepFirst(_, _, _)
CollectInner_KeepFirst(migrations, registry, acc) ==
    IF migrations = <<>> THEN Ok(acc)
    ELSE LET config == Head(migrations)
         IN  IF config.name \notin DOMAIN registry
             THEN Err(UnsupportedMigration(config.name))
             ELSE CollectInner_KeepFirst(Tail(migrations), registry,
                      IF config.name \in DOMAIN acc THEN acc
                      ELSE Put(acc, config.name,
                               Migration_new(registry[config.name], config.metadata)))

RECURSIVE CollectInner(_, _, _)
CollectInner(migrations, registry, acc) ==
    IF migrations = <<>> THEN Ok(acc)
    ELSE LET config == Head(migrations)
         IN  IF config.name \notin DOMAIN registry
             THEN Err(UnsupportedMigration(config.name))
             ELSE CollectInner(Tail(migrations), registry,
                               Put(acc, config.name,
                                   Migration_new(registry[config.name], config.metadata)))

\* a variant that reports only the first missing name
StrictCheck_FirstOnly(registry, inner) ==
    LET maybe_missing == SelectSeq(SortedKeys(DOMAIN registry),
                                   LAMBDA name : name \notin DOMAIN inner)
    IN  CASE Len(maybe_missing) = 0 -> Ok(Unit)
          [] OTHER -> Err(MissingMigration(maybe_missing[1]))

StrictCheck(registry, inner) ==
    LET maybe_missing == SelectSeq(SortedKeys(DOMAIN registry),
                                   LAMBDA name : name \notin DOMAIN inner)
    IN  CASE Len(maybe_missing) = 0 -> Ok(Unit)
          [] Len(maybe_missing) = 1 -> Err(MissingMigration(maybe_missing[1]))
          [] OTHER -> Err(MissingMigrations(maybe_missing))

\* a variant that activates only strictly above the activation height
Activate_Above(inner, height) ==
    [n \in DOMAIN inner |->
        IF is_enabled(inner[n]) /\ height > inner[n].metadata.block_height
        THEN [inner[n] EXCEPT !.active = TRUE]
        ELSE inner[n]]

\* a variant that activates by height alone, disabled migrations included
Activate_All(inner, height) ==
    [n \in DOMAIN inner |->
        IF height >= inner[n].metadata.block_height
        THEN [inner[n] EXCEPT !.active = TRUE]
        ELSE inner[n]]

\* activate all already active migrations, without calling initialize
Activate(inner, height) ==
    [n \in DOMAIN inner |->
        IF is_enabled(inner[n]) /\ height >= inner[n].metadata.block_height
        THEN [inner[n] EXCEPT !.active = TRUE]
        ELSE inner[n]]

\* a variant that checks strict completeness before it reports an
\* unsupported name
load_StrictFirst(registryList, config, height) ==
    LET registry == RegistryMap(registryList)
        known == SelectSeq(config.migrations, LAMBDA c : c.name \in DOMAIN registry)
        collected == CollectInner(config.migrations, registry, EmptyMap)
        checked == IF is_strict(config)
                   THEN StrictCheck(registry, CollectInner(known, registry, EmptyMap).value)
                   ELSE Ok(Unit)
    IN  IF ~checked.ok THEN checked
        ELSE IF ~collected.ok THEN collected
        ELSE Ok(Activate(collected.value, height))

load(registryList, config, height) ==
    LET registry == RegistryMap(registryList)
        collected == CollectInner(config.migrations, registry, EmptyMap)
    IN  IF ~collected.ok THEN collected
        ELSE LET inner0 == collected.value
                 checked == IF is_strict(config) THEN StrictCheck(registry, inner0)
                            ELSE Ok(Unit)
             IN  IF ~checked.ok THEN checked
                 ELSE Ok(Activate(inner0, height))

(***************************************************************************)
(* MigrationSet::update_at_height: the Regular migrations in key order,    *)
(* stopping at the first error.  `fails` is the set of names whose storage *)
(* hook returns an error when it is invoked in this call.                  *)
(***************************************************************************)
\* a variant that goes on after an error and returns the first one at the end
RECURSIVE UpdateLoop_BestEffort(_, _, _, _, _, _)
UpdateLoop_BestEffort(todo, inner, block_height, fails, calls, visited) ==
    IF todo = <<>>
    THEN [inner |-> inner, calls |-> calls, visited |-> visited,
          result |-> LET failed == SelectSeq(calls, LAMBDA c : c.name \in fails)
                     IN  IF failed = <<>> THEN Ok(Unit)
                         ELSE Err(HookError(failed[1].name, failed[1].hook))]
    ELSE LET n == Head(todo)
             r == maybe_initialize_update_at_height(inner[n], block_height, n \in fails)
         IN  UpdateLoop_BestEffort(Tail(todo), [inner EXCEPT ![n] = r.self],
                                   block_height, fails, calls \o r.calls,
                                   Append(visited, n))

RECURSIVE UpdateLoop(_, _, _, _, _, _)
UpdateLoop(todo, inner, block_height, fails, calls, visited) ==
    IF todo = <<>>
    THEN [inner |-> inner, calls |-> calls, visited |-> visited, result |-> Ok(Unit)]
    ELSE LET n == Head(todo)
             r == maybe_initialize_update_at_height(inner[n], block_height, n \in fails)
             inner1 == [inner EXCEPT ![n] = r.self]
         IN  IF ~r.result.ok
             THEN [inner |-> inner1, calls |-> calls \o r.calls,
                   visited |-> Append(visited, n), result |-> r.result]
             ELSE UpdateLoop(Tail(todo), inner1, block_height, fails,
                             calls \o r.calls, Append(visited, n))

\* a variant that runs the storage hooks of every migration of the set,
\* whatever its kind
RECURSIVE UpdateLoop_NoKindCheck(_, _, _, _, _, _)
UpdateLoop_NoKindCheck(todo, inner, block_height, fails, calls, visited) ==
    IF todo = <<>>
    THEN [inner |-> inner, calls |-> calls, visited |-> visited, result |-> Ok(Unit)]
    ELSE LET n == Head(todo)
             self == inner[n]
             r == IF is_enabled(self)
                  THEN IF block_height = self.metadata.block_height /\ ~self.active
                       THEN [self |-> [self EXCEPT !.active = TRUE]]
                            @@ RunFnPtr(n, "initialize", n \in fails)
                       ELSE IF block_height > self.metadata.block_height
                       THEN [self |-> self] @@ RunFnPtr(n, "update", n \in fails)
                       ELSE [self |-> self] @@ NoRun
                  ELSE [self |-> self] @@ NoRun
             inner1 == [inner EXCEPT ![n] = r.self]
         IN  IF ~r.result.ok
             THEN [inner |-> inner1, calls |-> calls \o r.calls,
                   visited |-> Append(visited, n), result |-> r.result]
             ELSE UpdateLoop_NoKindCheck(Tail(todo), inner1, block_height, fails,
                                         calls \o r.calls, Append(visited, n))

update_at_height_NoKindCheck(inner, block_height, fails) ==
    UpdateLoop_NoKindCheck(SortedKeys(DOMAIN inner), inner, block_height, fails,
                           <<>>, <<>>)

\* a variant that hands back the set as it was when a hook returned an error
update_at_height_Rollback(inner, block_height, fails) ==
    LET r == UpdateLoop(SelectSeq(SortedKeys(DOMAIN inner), LAMBDA n : is_regular(inner[n])),
                        inner, block_height, fails, <<>>, <<>>)
    IN  IF r.result.ok THEN r ELSE [r EXCEPT !.inner = inner]

update_at_height(inner, block_height, fails) ==
    UpdateLoop(SelectSeq(SortedKeys(DOMAIN inner), LAMBDA n : is_regular(inner[n])),
               inner, block_height, fails, <<>>, <<>>)

(***************************************************************************)
(* MigrationSet::hotfix: the Hotfix migrations of that name in key order,  *)
(* returning the first transform result that is present.                   *)
(***************************************************************************)
RECURSIVE HotfixLoop(_, _, _, _, _)
HotfixLoop(todo, inner, b, block_height, calls) ==
    IF todo = <<>> THEN [calls |-> calls, result |-> Ok(None)]
    ELSE LET r == Migration_hotfix(inner[Head(todo)], b, block_height)
         IN  IF r.result.some
             THEN [calls |-> calls \o r.calls, result |-> Ok(Some(r.result.value))]
             ELSE HotfixLoop(Tail(todo), inner, b, block_height, calls \o r.calls)

MigrationSet_hotfix(inner, name, b, block_height) ==
    HotfixLoop(SelectSeq(SortedKeys(DOMAIN inner),
                         LAMBDA n : is_hotfix(inner[n]) /\ inner[n].migration.name = name),
               inner, b, block_height, <<>>)

(***************************************************************************)
(* load_enable_all_regular_migrations: one migration per descriptor of the *)
(* registry, at block height 1, the Regular ones enabled, the others       *)
(* disabled.                                                               *)
(***************************************************************************)
\* a variant that enables every descriptor, the Hotfix ones included
load_enable_all_regular_migrations_AllKinds(registry) ==
    LET metadata == Metadata(1, FALSE)
        map == RegistryMap(registry)
    IN  [n \in DOMAIN map |-> enable(Migration_new(map[n], metadata))]

load_enable_all_regular_migrations(registry) ==
    LET metadata == Metadata(1, FALSE)
        map == RegistryMap(registry)
    IN  [n \in DOMAIN map |->
            LET migration == Migration_new(map[n], metadata)
            IN  IF map[n].type = "Regular"
                THEN enable(migration)
                ELSE disable(migration)]

(***************************************************************************)
(* MigrationSet::is_enabled / is_active: lookups by name that answer false *)
(* for a name the set does not hold.                                       *)
(***************************************************************************)
MigrationSet_is_enabled(inner, name) ==
    IF name \in DOMAIN inner THEN is_enabled(inner[name]) ELSE FALSE

\* a variant that answers with the enabled flag
MigrationSet_is_active_AsEnabled(inner, name) ==
    IF name \in DOMAIN inner THEN is_enabled(inner[name]) ELSE FALSE

MigrationSet_is_active(inner, name) ==
    IF name \in DOMAIN inner THEN is_active(inner[name]) ELSE FALSE

(***************************************************************************)
(* The state machine.                                                      *)
(***************************************************************************)
VARIABLES
    phase,       \* "start" before load, then "loaded" (a set exists) or "failed"
    inner,       \* MigrationSet.inner: name -> Migration
    last,        \* the call that has just returned: its arguments, the set before
                 \* it, the hooks it invoked (in order), the migrations it visited
                 \* and its result; Idle once the caller has taken the result
    initCount,   \* per name: how often update_at_height invoked its initialize hook
    reEnabled,   \* the names configured with disabled = true that enable() was
                 \* called on since load
    caughtUp     \* the names load was given enabled with a starting height >= theirs

vars == << phase, inner, last, initCount, reEnabled, caughtUp >>

RegistryNames == {Registry[i].name : i \in 1..Len(Registry)}

\* the names of the descriptors that have storage hooks
RegularNames == {Registry[i].name : i \in {j \in 1..Len(Registry) : Registry[j].type = "Regular"}}

\* the registries a host may hand to load: the descriptors from some point
\* of the list on (a name outside the registry is an unsupported name)
Registries == {SubSeq(Registry, k, Len(Registry)) : k \in 1..(Len(Registry) + 1)}

Entries == {SingleMigrationConfig(name, Metadata(a, d)) :
                name \in NameSet, a \in ActHeights, d \in BOOLEAN}

Configs == [strict : {None, Some(TRUE)},
            migrations : UNION {[1..k -> Entries] : k \in 0..MaxConfig}]

NoConfig == [strict |-> None, migrations |-> <<>>]

\* number of invocations of `hook` of migration `name` in a trace of calls
Count(calls, name, hook) ==
    Len(SelectSeq(calls, LAMBDA c : c = Call(name, hook)))

Min(a, b) == IF a <= b THEN a ELSE b

Idle ==
    [op |-> "idle", name |-> "", height |-> 0, bytes |-> <<>>, registry |-> <<>>,
     config |-> NoConfig, fails |-> {}, pre |-> EmptyMap, calls |-> <<>>,
     visited |-> <<>>, result |-> Ok(Unit)]

Init ==
    /\ phase = "start"
    /\ inner = EmptyMap
    /\ last = Idle
    /\ initCount = [n \in RegistryNames |-> 0]
    /\ reEnabled = {}
    /\ caughtUp = {}

Load ==
    /\ phase = "start"
    /\ last.op = "idle"
    /\ \E registry \in Registries, config \in Configs, height \in Heights :
          LET r == load(registry, config, height)
          IN  /\ phase' = IF r.ok THEN "loaded" ELSE "failed"
              /\ inner' = IF r.ok THEN r.value ELSE EmptyMap
              /\ last' = [Idle EXCEPT !.op = "load", !.registry = registry,
                                      !.config = config, !.height = height,
                                      !.result = IF r.ok THEN Ok(Unit) ELSE r]
              /\ caughtUp' = IF r.ok
                             THEN {n \in DOMAIN r.value :
                                     /\ ~r.value[n].metadata.disabled
                                     /\ height >= r.value[n].metadata.block_height}
                             ELSE {}
    /\ UNCHANGED << initCount, reEnabled >>

LoadEnableAll ==
    /\ phase = "start"
    /\ last.op = "idle"
    /\ \E registry \in Registries :
          /\ inner' = load_enable_all_regular_migrations(registry)
          /\ last' = [Idle EXCEPT !.op = "load_enable_all_regular_migrations",
                                  !.registry = registry]
    /\ phase' = "loaded"
    /\ UNCHANGED << initCount, reEnabled, caughtUp >>

UpdateAtHeight ==
    /\ phase = "loaded"
    /\ last.op = "idle"
    /\ \E block_height \in Heights, fails \in SUBSET RegularNames :
          LET r == update_at_height(inner, block_height, fails)
          IN  /\ inner' = r.inner
              /\ last' = [Idle EXCEPT !.op = "update_at_height",
                                      !.height = block_height, !.fails = fails,
                                      !.pre = inner, !.calls = r.calls,
                                      !.visited = r.visited, !.result = r.result]
              /\ initCount' = [n \in RegistryNames |->
                                 Min(MaxCount,
                                     initCount[n] + Count(r.calls, n, "initialize"))]
    /\ UNCHANGED << phase, reEnabled, caughtUp >>

Hotfix ==
    /\ phase = "loaded"
    /\ last.op = "idle"
    /\ \E name \in NameSet, b \in Bytes, block_height \in Heights :
          LET r == MigrationSet_hotfix(inner, name, b, block_height)
          IN  last' = [Idle EXCEPT !.op = "hotfix", !.name = name, !.bytes = b,
                                  !.height = block_height, !.pre = inner,
                                  !.calls = r.calls, !.result = r.result]
    /\ UNCHANGED << phase, inner, initCount, reEnabled, caughtUp >>

Enable ==
    /\ phase = "loaded"
    /\ last.op = "idle"
    /\ \E n \in DOMAIN inner :
          /\ inner' = [inner EXCEPT ![n] = enable(inner[n])]
          /\ reEnabled' = IF inner[n].metadata.disabled
                          THEN reEnabled \cup {n} ELSE reEnabled
          /\ last' = [Idle EXCEPT !.op = "enable", !.name = n, !.pre = inner]
    /\ UNCHANGED << phase, initCount, caughtUp >>

Disable ==
    /\ phase = "loaded"
    /\ last.op = "idle"
    /\ \E n \in DOMAIN inner :
          /\ inner' = [inner EXCEPT ![n] = disable(inner[n])]
          /\ last' = [Idle EXCEPT !.op = "disable", !.name = n, !.pre = inner]
    /\ UNCHANGED << phase, initCount, reEnabled, caughtUp >>

IsEnabled ==
    /\ phase = "loaded"
    /\ last.op = "idle"
    /\ \E name \in NameSet :
          last' = [Idle EXCEPT !.op = "is_enabled", !.name = name, !.pre = inner,
                              !.result = Ok(MigrationSet_is_enabled(inner, name))]
    /\ UNCHANGED << phase, inner, initCount, reEnabled, caughtUp >>

IsActive ==
    /\ phase = "loaded"
    /\ last.op = "idle"
    /\ \E name \in NameSet :
          last' = [Idle EXCEPT !.op = "is_active", !.name = name, !.pre = inner,
                              !.result = Ok(MigrationSet_is_active(inner, name))]
    /\ UNCHANGED << phase, inner, initCount, reEnabled, caughtUp >>

\* set[name].initialize(storage, block_height): the host reaches the
\* migration through Index, which panics for a name the set does not hold
Initialize ==
    /\ phase = "loaded"
    /\ last.op = "idle"
    /\ \E name \in DOMAIN inner, block_height \in Heights, fails \in BOOLEAN :
          LET r == Migration_initialize(inner[name], block_height, fails)
          IN  last' = [Idle EXCEPT !.op = "initialize", !.name = name,
                                  !.height = block_height, !.pre = inner,
                                  !.calls = r.calls, !.result = r.result]
    /\ UNCHANGED << phase, inner, initCount, reEnabled, caughtUp >>

\* set[name].update(storage, block_height)
Update ==
    /\ phase = "loaded"
    /\ last.op = "idle"
    /\ \E name \in DOMAIN inner, block_height \in Heights, fails \in BOOLEAN :
          LET r == Migration_update(inner[name], block_height, fails)
          IN  last' = [Idle EXCEPT !.op = "update", !.name = name,
                                  !.height = block_height, !.pre = inner,
                                  !.calls = r.calls, !.result = r.result]
    /\ UNCHANGED << phase, inner, initCount, reEnabled, caughtUp >>

\* the caller takes the result of the call; the next call can start
Return ==
    /\ last.op # "idle"
    /\ last' = Idle
    /\ UNCHANGED << phase, inner, initCount, reEnabled, caughtUp >>

Next ==
    \/ Load
    \/ LoadEnableAll
    \/ UpdateAtHeight
    \/ Hotfix
    \/ Enable
    \/ Disable
    \/ IsEnabled
    \/ IsActive
    \/ Initialize
    \/ Update
    \/ Return

Spec == Init /\ [][Next]_vars

(***************************************************************************)
(* Vocabulary of the properties.                                           *)
(***************************************************************************)
\* the hooks of migration n invoked by the call that has just returned
CallsOf(n) == SelectSeq(last.calls, LAMBDA c : c.name = n)

Range(seq) == {seq[i] : i \in 1..Len(seq)}

IsUpdate == last.op = "update_at_height"

IsHotfix == last.op = "hotfix"

IsLoad == last.op = "load"

\* the Regular migrations that were enabled when the call started
EnabledRegular == {n \in DOMAIN last.pre :
                     is_regular(last.pre[n]) /\ is_enabled(last.pre[n])}

ActHeight(n) == last.pre[n].metadata.block_height

\* what one update_at_height call does to an enabled Regular migration n
HookTable(n) ==
    /\ last.height < ActHeight(n) => CallsOf(n) = <<>>
    /\ (last.height = ActHeight(n) /\ ~last.pre[n].active) =>
           /\ CallsOf(n) = << Call(n, "initialize") >>
           /\ is_active(inner[n])
    /\ (last.height = ActHeight(n) /\ last.pre[n].active) => CallsOf(n) = <<>>
    /\ last.height > ActHeight(n) => CallsOf(n) = << Call(n, "update") >>

(***************************************************************************)
(* C1 as stated: one update_at_height call at height h invokes, for every  *)
(* enabled Regular migration with activation height a, no hook when h < a, *)
(* exactly the initialize hook when h = a and it is not yet active (and it *)
(* is active afterwards), no hook when h = a and it is active, exactly the *)
(* update hook when h > a.                                                 *)
(***************************************************************************)
C1_HookTableEveryCall ==
    IsUpdate => \A n \in EnabledRegular : HookTable(n)

(***************************************************************************)
(* C1 amended: the table holds for every enabled Regular migration the     *)
(* call reaches; a migration ordered after one whose hook returned an      *)
(* error is not reached: none of its hooks is invoked and it is unchanged. *)
(***************************************************************************)
C1_HookTableWhenReached ==
    IsUpdate =>
        \A n \in EnabledRegular :
            IF n \in Range(last.visited)
            THEN HookTable(n)
            ELSE /\ CallsOf(n) = <<>>
                 /\ inner[n] = last.pre[n]
                 /\ ~last.result.ok

\* an update_at_height call at the activation height of a not yet active,
\* enabled Regular migration has invoked its initialize hook
C1_Witness ==
    /\ IsUpdate
    /\ \E n \in EnabledRegular :
          /\ last.height = ActHeight(n)
          /\ ~last.pre[n].active
          /\ CallsOf(n) = << Call(n, "initialize") >>
          /\ is_active(inner[n])

(***************************************************************************)
(* C2: the initialize hook of each migration is invoked at most once in    *)
(* the lifetime of the set, and only by an update_at_height call whose     *)
(* height equals the activation height of the migration.                   *)
(***************************************************************************)
C2_InitializeAtMostOnce ==
    /\ \A n \in RegistryNames : initCount[n] <= 1
    /\ IsUpdate =>
          \A i \in 1..Len(last.calls) :
              last.calls[i].hook = "initialize" =>
                  /\ last.calls[i].name \in DOMAIN last.pre
                  /\ last.height = ActHeight(last.calls[i].name)

\* update_at_height reaches an enabled migration again at its activation
\* height after its initialize hook was invoked, and does not invoke it
C2_Witness ==
    /\ IsUpdate
    /\ \E n \in EnabledRegular :
          /\ last.height = ActHeight(n)
          /\ n \in Range(last.visited)
          /\ initCount[n] = 1
          /\ CallsOf(n) = <<>>

(***************************************************************************)
(* C3: the active flag is monotonic: a migration that is active stays in   *)
(* the set and stays active in every later state, whatever the operation   *)
(* and whether or not a hook returned an error.                            *)
(***************************************************************************)
C3_ActiveMonotonic ==
    [][\A n \in DOMAIN inner :
          is_active(inner[n]) => (n \in DOMAIN inner' /\ is_active(inner'[n]))]_vars

\* an active migration was disabled, or was in the set during an
\* update_at_height call that returned an error, and is still active
C3_Witness ==
    \/ /\ last.op = "disable"
       /\ is_active(last.pre[last.name])
       /\ is_active(inner[last.name])
       /\ ~is_enabled(inner[last.name])
    \/ /\ IsUpdate
       /\ ~last.result.ok
       /\ \E n \in DOMAIN last.pre : is_active(last.pre[n]) /\ is_active(inner[n])

(***************************************************************************)
(* C4 as stated, for the migrations a call reaches: after an               *)
(* update_at_height call at a height h >= a that reaches an enabled        *)
(* Regular migration, and after a load with a starting height h0 >= a of   *)
(* an enabled Regular migration, the migration is active.                  *)
(***************************************************************************)
C4_ActiveFromFirstHeightAtOrAbove ==
    /\ IsUpdate =>
          \A n \in EnabledRegular :
              (n \in Range(last.visited) /\ last.height >= ActHeight(n)) =>
                  is_active(inner[n])
    /\ (IsLoad /\ phase = "loaded") =>
          \A n \in DOMAIN inner :
              (/\ is_regular(inner[n])
               /\ is_enabled(inner[n])
               /\ last.height >= inner[n].metadata.block_height) =>
                  is_active(inner[n])

\* the Regular migrations load was given enabled at or above their height
CaughtUpRegular == {n \in caughtUp : n \in DOMAIN inner /\ is_regular(inner[n])}

(***************************************************************************)
(* C5 as stated: a Regular migration that load was given enabled with a    *)
(* starting height h0 >= a is active right after load (and from then on),  *)
(* load invokes no hook, its initialize hook is never invoked, and every   *)
(* later update_at_height call at a height h > a invokes its update hook.  *)
(***************************************************************************)
C5_CatchUpEveryCall ==
    \A n \in CaughtUpRegular :
        /\ is_active(inner[n])
        /\ IsLoad => last.calls = <<>>
        /\ initCount[n] = 0
        /\ (IsUpdate /\ last.height > ActHeight(n)) =>
               CallsOf(n) = << Call(n, "update") >>

(***************************************************************************)
(* C5 amended: as stated, except that the update hook is invoked by every  *)
(* later update_at_height call at a height h > a that reaches the          *)
(* migration while it is enabled (a disabled migration, and one ordered    *)
(* after a migration whose hook returned an error, gets no call).          *)
(***************************************************************************)
C5_CatchUpWhenReached ==
    \A n \in CaughtUpRegular :
        /\ is_active(inner[n])
        /\ IsLoad => last.calls = <<>>
        /\ initCount[n] = 0
        /\ IsUpdate => Count(last.calls, n, "initialize") = 0
        /\ (/\ IsUpdate
            /\ last.height > ActHeight(n)
            /\ n \in EnabledRegular
            /\ n \in Range(last.visited)) =>
               CallsOf(n) = << Call(n, "update") >>

\* after a catch-up load, update_at_height reached the migration at its
\* activation height without a hook call, or above it with an update call
C5_Witness ==
    /\ IsUpdate
    /\ \E n \in CaughtUpRegular :
          /\ n \in EnabledRegular
          /\ n \in Range(last.visited)
          /\ \/ last.height = ActHeight(n) /\ CallsOf(n) = <<>>
             \/ last.height > ActHeight(n) /\ CallsOf(n) = << Call(n, "update") >>

(***************************************************************************)
(* C6: a migration configured with disabled = true on which enable() was   *)
(* never called is not enabled, has never had its initialize or update     *)
(* hook invoked, and is not active, whatever the starting height of load   *)
(* and the heights given to update_at_height.                              *)
(***************************************************************************)
C6_DisabledNeverRuns ==
    \A n \in DOMAIN inner :
        (inner[n].metadata.disabled /\ n \notin reEnabled) =>
            /\ ~is_enabled(inner[n])
            /\ ~is_active(inner[n])
            /\ initCount[n] = 0
            /\ Count(last.calls, n, "initialize") = 0
            /\ Count(last.calls, n, "update") = 0

\* update_at_height reached a Regular migration configured disabled, never
\* enabled, at or above its activation height
C6_Witness ==
    /\ IsUpdate
    /\ \E n \in DOMAIN last.pre :
          /\ is_regular(last.pre[n])
          /\ last.pre[n].metadata.disabled
          /\ n \notin reEnabled
          /\ n \in Range(last.visited)
          /\ last.height >= ActHeight(n)

(***************************************************************************)
(* C7: hotfix(name, bytes, h) calls the transform only when the set holds  *)
(* a migration of that name that is of kind Hotfix, is enabled and has     *)
(* activation height exactly h, and then returns what the transform        *)
(* returns; in every other case (h below or above the activation height, a *)
(* disabled migration, a Regular migration, a name not in the set) the     *)
(* result is Ok(None) and the transform is not called.                     *)
(***************************************************************************)
C7_HotfixGate ==
    IsHotfix =>
        LET applies == /\ last.name \in DOMAIN last.pre
                       /\ is_hotfix(last.pre[last.name])
                       /\ is_enabled(last.pre[last.name])
                       /\ ActHeight(last.name) = last.height
        IN  IF applies
            THEN /\ last.calls = << Call(last.name, "hotfix") >>
                 /\ last.result = Ok(hotfix_fn(last.bytes))
            ELSE /\ last.calls = <<>>
                 /\ last.result = Ok(None)

\* a hotfix call at the activation height returned a transformed byte string
C7_Witness ==
    /\ IsHotfix
    /\ last.result.ok
    /\ last.result.value.some
    /\ last.calls = << Call(last.name, "hotfix") >>

(***************************************************************************)
(* C8: kind separation.  update_at_height invokes only initialize and      *)
(* update hooks, and only of Regular migrations; hotfix invokes only the   *)
(* transform, and only of Hotfix migrations; hotfix with the name of a     *)
(* Regular migration returns Ok(None) at every height.                     *)
(***************************************************************************)
C8_KindSeparation ==
    /\ IsUpdate =>
          \A c \in Range(last.calls) :
              /\ c.name \in DOMAIN last.pre
              /\ is_regular(last.pre[c.name])
              /\ c.hook \in {"initialize", "update"}
    /\ IsHotfix =>
          /\ \A c \in Range(last.calls) :
                /\ c.name \in DOMAIN last.pre
                /\ is_hotfix(last.pre[c.name])
                /\ c.hook = "hotfix"
          /\ (last.name \in DOMAIN last.pre /\ is_regular(last.pre[last.name])) =>
                (last.calls = <<>> /\ last.result = Ok(None))

\* update_at_height ran, without error, over a set that holds an enabled
\* Hotfix migration whose activation height the call has reached, or hotfix
\* was asked for an enabled Regular migration at its activation height
C8_Witness ==
    \/ /\ IsUpdate
       /\ last.result.ok
       /\ last.calls # <<>>
       /\ \E n \in DOMAIN last.pre :
             /\ is_hotfix(last.pre[n])
             /\ is_enabled(last.pre[n])
             /\ last.height >= ActHeight(n)
    \/ /\ IsHotfix
       /\ last.name \in DOMAIN last.pre
       /\ is_regular(last.pre[last.name])
       /\ is_enabled(last.pre[last.name])
       /\ last.height = ActHeight(last.name)
       /\ last.bytes # <<>>

\* the Regular migrations of the set when the call started
RegularOfPre == {n \in DOMAIN last.pre : is_regular(last.pre[n])}

(***************************************************************************)
(* C9: fail-fast.  update_at_height visits the Regular migrations in       *)
(* ascending name order; when a hook returns an error the call returns     *)
(* exactly that error, the failing hook is the last one invoked and no     *)
(* migration ordered after it is visited; when no invoked hook fails the   *)
(* call returns Ok and every Regular migration was visited.                *)
(***************************************************************************)
C9_FailFast ==
    IsUpdate =>
        LET v == last.visited
            c == last.calls
            noneFailed == \A i \in 1..Len(c) : c[i].name \notin last.fails
        IN  /\ \A i, j \in 1..Len(v) : i < j => Rank(v[i]) < Rank(v[j])
            /\ Range(v) \subseteq RegularOfPre
            /\ \A n \in RegularOfPre \ Range(v) : \A i \in 1..Len(v) : Rank(v[i]) < Rank(n)
            /\ \A i \in 1..Len(c) : c[i].name \in Range(v)
            /\ noneFailed <=> last.result.ok
            /\ last.result.ok => Range(v) = RegularOfPre
            /\ ~last.result.ok =>
                  /\ c # <<>>
                  /\ c[Len(c)].name = v[Len(v)]
                  /\ c[Len(c)].name \in last.fails
                  /\ \A i \in 1..(Len(c) - 1) : c[i].name \notin last.fails
                  /\ last.result = Err(HookError(c[Len(c)].name, c[Len(c)].hook))

\* a hook returned an error and an enabled Regular migration ordered after
\* it, whose update hook was due at this height, was not visited
C9_Witness ==
    /\ IsUpdate
    /\ ~last.result.ok
    /\ \E n \in EnabledRegular :
          /\ n \notin Range(last.visited)
          /\ last.height > ActHeight(n)

\* the positions of the configuration whose name the registry does not have
Unresolved ==
    {i \in 1..Len(last.config.migrations) :
        \A k \in 1..Len(last.registry) :
            last.registry[k].name # last.config.migrations[i].name}

(***************************************************************************)
(* C10: when the configuration holds a name that is absent from the        *)
(* registry, load fails: no set is returned and the error is "Unsupported  *)
(* migration '<name>'" for an unresolved name of the configuration,        *)
(* whatever the strict flag and the starting height.                       *)
(***************************************************************************)
C10_UnsupportedName ==
    (IsLoad /\ Unresolved # {}) =>
        /\ phase = "failed"
        /\ inner = EmptyMap
        /\ ~last.result.ok
        /\ \E i \in Unresolved :
              last.result.error = UnsupportedMigration(last.config.migrations[i].name)

\* load was refused a strict configuration that holds an unresolved name
\* after a resolved one
C10_Witness ==
    /\ IsLoad
    /\ phase = "failed"
    /\ is_strict(last.config)
    /\ Unresolved # {}
    /\ 1 \notin Unresolved

\* the names of the registry handed to load, and those the configuration lists
RegistryNamesOfLoad == {last.registry[k].name : k \in 1..Len(last.registry)}

ConfigNames == {last.config.migrations[i].name : i \in 1..Len(last.config.migrations)}

MissingNames == RegistryNamesOfLoad \ ConfigNames

(***************************************************************************)
(* C11: strict mode.  When every name of the configuration resolves: a     *)
(* strict load fails exactly when some registry name is not listed, and    *)
(* the error lists exactly the missing names, in the singular message for  *)
(* one name and in the plural message (all of them, ascending) otherwise;  *)
(* a load that is not strict never fails for missing names.                *)
(***************************************************************************)
C11_StrictMissing ==
    (IsLoad /\ Unresolved = {}) =>
        IF is_strict(last.config)
        THEN /\ last.result.ok <=> MissingNames = {}
             /\ Cardinality(MissingNames) = 1 =>
                   \E n \in MissingNames :
                       last.result.error = MissingMigration(n)
             /\ Cardinality(MissingNames) > 1 =>
                   /\ Len(last.result.error) = 2
                   /\ last.result.error[1] = MissingMigrations(<<>>)[1]
                   /\ Range(last.result.error[2]) = MissingNames
                   /\ Len(last.result.error[2]) = Cardinality(MissingNames)
                   /\ \A i, j \in 1..Len(last.result.error[2]) :
                         i < j => Rank(last.result.error[2][i]) < Rank(last.result.error[2][j])
             /\ ~last.result.ok => (phase = "failed" /\ inner = EmptyMap)
        ELSE /\ last.result.ok
             /\ phase = "loaded"

\* a strict load was refused for two or more missing registry names
C11_Witness ==
    /\ IsLoad
    /\ Unresolved = {}
    /\ is_strict(last.config)
    /\ Cardinality(MissingNames) > 1
    /\ ConfigNames # {}
    /\ ~last.result.ok

(***************************************************************************)
(* C12: is_enabled(name) and is_active(name) answer false for every name   *)
(* the set does not hold (a registry name the configuration did not list   *)
(* included), answer the current enabled / active flag of the migration    *)
(* for a name it holds, and leave the set as it was.                       *)
(***************************************************************************)
C12_Lookups ==
    /\ last.op = "is_enabled" =>
          /\ last.result = Ok(IF last.name \in DOMAIN last.pre
                              THEN last.pre[last.name].enabled ELSE FALSE)
          /\ inner = last.pre
    /\ last.op = "is_active" =>
          /\ last.result = Ok(IF last.name \in DOMAIN last.pre
                              THEN last.pre[last.name].active ELSE FALSE)
          /\ inner = last.pre

\* is_active was asked for a name the set does not hold, or for a migration
\* whose two flags differ
C12_Witness ==
    /\ last.op = "is_active"
    /\ \/ last.name \notin DOMAIN inner /\ last.result = Ok(FALSE)
       \/ /\ last.name \in DOMAIN inner
          /\ inner[last.name].enabled # inner[last.name].active
          /\ last.result = Ok(inner[last.name].active)

EnableAllShape(set, registry) ==
    /\ DOMAIN set = {registry[k].name : k \in 1..Len(registry)}
    /\ \A k \in 1..Len(registry) :
          LET m == set[registry[k].name]
          IN  /\ m.migration = registry[k]
              /\ m.metadata.block_height = 1
              /\ is_enabled(m) <=> (registry[k].type = "Regular")

\* EnableAllShape, and no migration is active
EnableAllFresh(set, registry) ==
    /\ EnableAllShape(set, registry)
    /\ \A n \in DOMAIN set : ~is_active(set[n])

\* what C14 says of the returned set, and of hotfix on a set of that shape
EnableAllReturned ==
    /\ last.op = "load_enable_all_regular_migrations" =>
          /\ phase = "loaded"
          /\ EnableAllFresh(inner, last.registry)
    /\ (IsHotfix /\ \E registry \in Registries : EnableAllShape(last.pre, registry)) =>
          /\ last.result = Ok(None)
          /\ last.calls = <<>>

(***************************************************************************)
(* C14 as stated: load_enable_all_regular_migrations(registry) returns a   *)
(* set with one instance per registry name, every Regular migration        *)
(* enabled, every Hotfix migration disabled, each with activation height 1 *)
(* and not active; hotfix then returns Ok(None) for every name and height; *)
(* the first update_at_height at height 1 invokes initialize on every      *)
(* Regular migration.                                                      *)
(***************************************************************************)
C14_EnableAllEveryRegular ==
    /\ EnableAllReturned
    /\ (/\ IsUpdate
        /\ last.height = 1
        /\ \E registry \in Registries : EnableAllFresh(last.pre, registry)) =>
          \A n \in RegularOfPre : CallsOf(n) = << Call(n, "initialize") >>

(***************************************************************************)
(* C14 amended: as stated, except that the first update_at_height at       *)
(* height 1 invokes initialize on the Regular migrations in name order up  *)
(* to and including the first one whose hook returns an error: on every    *)
(* Regular migration when no hook fails, and on none after a failing one.  *)
(***************************************************************************)
C14_EnableAllUpToFailure ==
    /\ EnableAllReturned
    /\ (/\ IsUpdate
        /\ last.height = 1
        /\ \E registry \in Registries : EnableAllFresh(last.pre, registry)) =>
          /\ \A n \in RegularOfPre :
                IF n \in Range(last.visited)
                THEN /\ CallsOf(n) = << Call(n, "initialize") >>
                     /\ is_active(inner[n])
                ELSE /\ CallsOf(n) = <<>>
                     /\ \E o \in Range(last.visited) :
                           o \in last.fails /\ Rank(o) < Rank(n)
          /\ last.result.ok => Range(last.visited) = RegularOfPre
          /\ \A n \in Range(last.visited) \cap last.fails :
                last.visited[Len(last.visited)] = n

\* the helper built a set over Regular and Hotfix descriptors, or the first
\* update_at_height at height 1 on such a set initialised two migrations
C14_Witness ==
    \/ /\ last.op = "load_enable_all_regular_migrations"
       /\ \E n, o \in DOMAIN inner : is_enabled(inner[n]) /\ ~is_enabled(inner[o])
    \/ /\ IsUpdate
       /\ last.height = 1
       /\ \E registry \in Registries : EnableAllFresh(last.pre, registry)
       /\ Len(last.calls) = 2
       /\ last.result.ok

\* the initialize hooks that returned an error in the call
FailedInitialize ==
    {n \in DOMAIN last.pre :
        IsUpdate /\ n \in last.fails /\ Count(last.calls, n, "initialize") > 0}

(***************************************************************************)
(* C15 as stated: when the initialize hook returns an error during         *)
(* update_at_height at height h = a, the migration is not marked active    *)
(* (so that a later call at the same height would invoke initialize        *)
(* again).                                                                 *)
(***************************************************************************)
C15_FailedInitializeNotActive ==
    \A n \in FailedInitialize : ~is_active(inner[n])

(***************************************************************************)
(* C15 amended: when the initialize hook returns an error during           *)
(* update_at_height at height h = a, the call returns that error and the   *)
(* migration is marked active all the same; no update_at_height call       *)
(* invokes initialize on a migration that is already active, so a later    *)
(* call at the same height does not attempt initialize again.              *)
(***************************************************************************)
C15_FailedInitializeIsActive ==
    /\ \A n \in FailedInitialize :
          /\ last.height = ActHeight(n)
          /\ ~is_active(last.pre[n])
          /\ is_active(inner[n])
          /\ last.result = Err(HookError(n, "initialize"))
    /\ IsUpdate =>
          \A n \in DOMAIN last.pre :
              (is_active(last.pre[n]) /\ last.height = ActHeight(n)) => CallsOf(n) = <<>>

\* an initialize hook returned an error after another migration's hook
\* succeeded in the same call
C15_Witness ==
    /\ IsUpdate
    /\ Len(last.calls) = 2
    /\ \E n \in FailedInitialize :
          /\ last.calls[2] = Call(n, "initialize")
          /\ is_active(inner[n])

(***************************************************************************)
(* C16: no rollback within one height.  When update_at_height returns the  *)
(* error of a migration after hooks of migrations ordered before it        *)
(* succeeded in the same call, what those hooks did stays done (the hook   *)
(* invocations, which stand for their storage effects, stay counted) and   *)
(* every migration visited before the failing one is left as its own step  *)
(* left it: active when its initialize hook ran in this call.              *)
(***************************************************************************)
C16_NoRollback ==
    (IsUpdate /\ ~last.result.ok) =>
        /\ \A i \in 1..(Len(last.calls) - 1) :
              LET n == last.calls[i].name
              IN  /\ n \notin last.fails
                  /\ last.calls[i].hook = "initialize" =>
                        /\ ~is_active(last.pre[n])
                        /\ is_active(inner[n])
                        /\ initCount[n] >= 1
        /\ \A i \in 1..(Len(last.visited) - 1) :
              LET n == last.visited[i]
              IN  inner[n] = maybe_initialize_update_at_height(last.pre[n], last.height, FALSE).self

\* the call returned the error of the second hook after the initialize hook
\* of an earlier migration succeeded and made that migration active
C16_Witness ==
    /\ IsUpdate
    /\ ~last.result.ok
    /\ Len(last.calls) = 2
    /\ last.calls[1].hook = "initialize"
    /\ ~is_active(last.pre[last.calls[1].name])
    /\ is_active(inner[last.calls[1].name])
    /\ initCount[last.calls[1].name] = 1

\* the Regular migrations that were configured disabled, have been enabled
\* since, and are enabled but not active when the call starts: no call at
\* their activation height has reached them while they were enabled
SkippedWhileDisabled ==
    {n \in EnabledRegular : n \in reEnabled /\ ~is_active(last.pre[n])}

(***************************************************************************)
(* C17 as stated: a Regular migration that was disabled across its         *)
(* activation height a and enabled afterwards gets its update hook invoked *)
(* by every later update_at_height call at a height h > a, although its    *)
(* initialize hook was never invoked, and it stays not active.             *)
(***************************************************************************)
C17_SkippedEveryCall ==
    IsUpdate =>
        \A n \in SkippedWhileDisabled :
            last.height > ActHeight(n) =>
                /\ CallsOf(n) = << Call(n, "update") >>
                /\ ~is_active(inner[n])
                /\ initCount[n] = 0

(***************************************************************************)
(* C17 amended: such a migration gets exactly its update hook invoked by   *)
(* every later update_at_height call at a height h > a that reaches it     *)
(* while it is enabled, although its initialize hook was never invoked,    *)
(* and it stays not active; a call that returns the error of a migration   *)
(* ordered before it invokes none of its hooks.  The same holds of every   *)
(* enabled Regular migration that is not active when the call starts.      *)
(***************************************************************************)
C17_SkippedWhenReached ==
    IsUpdate =>
        \A n \in EnabledRegular :
            (~is_active(last.pre[n]) /\ last.height > ActHeight(n)) =>
                /\ IF n \in Range(last.visited)
                   THEN CallsOf(n) = << Call(n, "update") >>
                   ELSE CallsOf(n) = <<>> /\ ~last.result.ok
                /\ ~is_active(inner[n])
                /\ initCount[n] = 0

\* a migration configured disabled and enabled later got its update hook
\* invoked above its activation height and is still not active
C17_Witness ==
    /\ IsUpdate
    /\ \E n \in SkippedWhileDisabled :
          /\ last.height > ActHeight(n)
          /\ CallsOf(n) = << Call(n, "update") >>
          /\ ~is_active(inner[n])
          /\ initCount[n] = 0

\* the metadata of the last entry of the configuration that names n
ConfiguredMetadata(n) ==
    LET entries == last.config.migrations
        at == CHOOSE i \in 1..Len(entries) :
                 /\ entries[i].name = n
                 /\ \A j \in (i + 1)..Len(entries) : entries[j].name # n
    IN  entries[at].metadata

(***************************************************************************)
(* C18: after a successful load(registry, config, h0) the set holds        *)
(* exactly the names the configuration lists (a registry name that is not  *)
(* listed is absent); each instance carries the descriptor of that name    *)
(* and the metadata configured for it, is enabled iff not configured       *)
(* disabled, and is active iff it is enabled and h0 >= its activation      *)
(* height: a disabled migration is not active even when h0 >= its height.  *)
(***************************************************************************)
C18_LoadPostcondition ==
    (IsLoad /\ last.result.ok) =>
        /\ phase = "loaded"
        /\ DOMAIN inner = ConfigNames
        /\ \A n \in DOMAIN inner :
              /\ inner[n].migration.name = n
              /\ inner[n].migration \in Range(last.registry)
              /\ inner[n].metadata = ConfiguredMetadata(n)
              /\ is_enabled(inner[n]) <=> ~inner[n].metadata.disabled
              /\ is_active(inner[n]) <=>
                    (is_enabled(inner[n]) /\ last.height >= inner[n].metadata.block_height)

\* a successful load of a configuration that leaves a registry name out,
\* lists a disabled migration whose height the starting height has reached,
\* and lists an enabled one that load made active
C18_Witness ==
    /\ IsLoad
    /\ last.result.ok
    /\ MissingNames # {}
    /\ \E n, o \in DOMAIN inner :
          /\ inner[n].metadata.disabled
          /\ last.height >= inner[n].metadata.block_height
          /\ ~is_active(inner[n])
          /\ is_active(inner[o])

\* the first position of the configuration whose name is unresolved
FirstUnresolved == CHOOSE i \in Unresolved : \A j \in Unresolved : i <= j

(***************************************************************************)
(* C19: load error precedence.  When the configuration holds a name absent *)
(* from the registry, load returns "Unsupported migration" for the first   *)
(* such name in configuration order, also when the configuration is strict *)
(* and leaves a registry name out; load fails for no other reason than an  *)
(* unresolved name or a strict configuration with a missing name; a load   *)
(* that fails returns no set.                                              *)
(***************************************************************************)
C19_ErrorPrecedence ==
    IsLoad =>
        /\ Unresolved # {} =>
              /\ ~last.result.ok
              /\ last.result.error =
                    UnsupportedMigration(last.config.migrations[FirstUnresolved].name)
        /\ ~last.result.ok =>
              /\ phase = "failed"
              /\ inner = EmptyMap
              /\ Unresolved # {} \/ (is_strict(last.config) /\ MissingNames # {})
        /\ last.result.ok => phase = "loaded"

\* load refused a strict configuration that leaves a registry name out and
\* holds two different unresolved names
C19_Witness ==
    /\ IsLoad
    /\ ~last.result.ok
    /\ is_strict(last.config)
    /\ MissingNames # {}
    /\ Cardinality(Unresolved) = 2
    /\ last.config.migrations[1].name # last.config.migrations[2].name
    /\ last.result.error = UnsupportedMigration(last.config.migrations[1].name)

\* the set with the active flags replaced: active exactly for the names in S
WithActive(set, S) == [n \in DOMAIN set |-> [set[n] EXCEPT !.active = (n \in S)]]

(***************************************************************************)
(* C20: hotfix is a read-only query that does not depend on the active     *)
(* flags.  A hotfix call leaves the set as it was (enabled, active and     *)
(* metadata of every migration), and the same name, bytes and height give  *)
(* the same result, and the same transform invocations, on the set with   *)
(* every active flag cleared and on the set with every active flag set:    *)
(* the result is a function of the set without its active flags, so sets   *)
(* that differ only in active flags give the same result.                  *)
(***************************************************************************)
C20_HotfixReadOnly ==
    IsHotfix =>
        /\ inner = last.pre
        /\ \A S \in {{}, DOMAIN last.pre} :
              LET r == MigrationSet_hotfix(WithActive(inner, S), last.name,
                                           last.bytes, last.height)
              IN  /\ r.result = last.result
                  /\ r.calls = last.calls

\* hotfix applied the transform of a migration that is not active, in a set
\* that holds an active migration as well
C20_Witness ==
    /\ IsHotfix
    /\ last.result.value.some
    /\ ~is_active(inner[last.name])
    /\ \E n \in DOMAIN inner : is_active(inner[n])

\* the set after update_at_height was called, with hooks that succeed, at
\* every height from `from` to `to` in turn
RECURSIVE Replay(_, _, _)
Replay(set, from, to) ==
    IF from > to THEN set
    ELSE Replay(update_at_height(set, from, {}).inner, from + 1, to)

\* load was given a starting height below every configured activation height
LoadedBelowAll ==
    /\ IsLoad
    /\ last.result.ok
    /\ \A n \in DOMAIN inner : last.height < inner[n].metadata.block_height

\* the set a second node gets from the same registry and configuration at h
Bootstrap(h) == load(last.registry, last.config, h).value

(***************************************************************************)
(* C21 as stated: replay/bootstrap equivalence.  A set loaded at a height  *)
(* h0 below all activation heights and driven by update_at_height through  *)
(* every height h0+1..h, and a set loaded from the same registry and       *)
(* configuration at starting height h, report the same is_enabled and      *)
(* is_active for every configured name, Regular and Hotfix alike, and      *)
(* invoke the same hooks at every later height.                            *)
(***************************************************************************)
C21_ReplayEqualsBootstrap ==
    LoadedBelowAll =>
        \A h \in Heights :
            h >= last.height =>
                LET replayed == Replay(inner, last.height + 1, h)
                    loaded == Bootstrap(h)
                IN  /\ \A n \in ConfigNames :
                          /\ MigrationSet_is_enabled(replayed, n) = MigrationSet_is_enabled(loaded, n)
                          /\ MigrationSet_is_active(replayed, n) = MigrationSet_is_active(loaded, n)
                    /\ \A later \in Heights :
                          later > h =>
                              /\ update_at_height(replayed, later, {}).calls
                                    = update_at_height(loaded, later, {}).calls
                              /\ \A n \in ConfigNames, b \in Bytes :
                                    MigrationSet_hotfix(replayed, n, b, later).calls
                                      = MigrationSet_hotfix(loaded, n, b, later).calls

\* the same comparison, for the Regular migrations only
ReplayEqualsBootstrapRegular ==
    LoadedBelowAll =>
        \A h \in Heights :
            h >= last.height =>
                LET replayed == Replay(inner, last.height + 1, h)
                    loaded == Bootstrap(h)
                IN  /\ \A n \in ConfigNames :
                          /\ MigrationSet_is_enabled(replayed, n) = MigrationSet_is_enabled(loaded, n)
                          /\ is_regular(inner[n]) =>
                                MigrationSet_is_active(replayed, n) = MigrationSet_is_active(loaded, n)
                    /\ \A later \in Heights :
                          later > h =>
                              /\ update_at_height(replayed, later, {}).calls
                                    = update_at_height(loaded, later, {}).calls
                              /\ \A n \in ConfigNames, b \in Bytes :
                                    MigrationSet_hotfix(replayed, n, b, later).calls
                                      = MigrationSet_hotfix(loaded, n, b, later).calls

(***************************************************************************)
(* C22: update_at_height keeps the names of the set and, of every          *)
(* migration, the descriptor, the enabled flag and the metadata, whether   *)
(* or not a hook returned an error; the only change it makes is active     *)
(* from false to true, and only on a Regular migration that is enabled and *)
(* whose activation height is the height of the call (so never on a Hotfix *)
(* migration and never on a disabled one).                                 *)
(***************************************************************************)
C22_UpdateFrame ==
    IsUpdate =>
        /\ DOMAIN inner = DOMAIN last.pre
        /\ \A n \in DOMAIN last.pre :
              /\ inner[n].migration = last.pre[n].migration
              /\ inner[n].metadata = last.pre[n].metadata
              /\ is_enabled(inner[n]) = is_enabled(last.pre[n])
              /\ is_active(inner[n]) # is_active(last.pre[n]) =>
                    /\ ~is_active(last.pre[n])
                    /\ is_active(inner[n])
                    /\ is_regular(last.pre[n])
                    /\ is_enabled(last.pre[n])
                    /\ last.height = ActHeight(n)

\* a call that returned a hook's error made a Regular migration active and
\* left alone an enabled Hotfix migration with the same activation height
C22_Witness ==
    /\ IsUpdate
    /\ ~last.result.ok
    /\ \E n, o \in DOMAIN last.pre :
          /\ ~is_active(last.pre[n])
          /\ is_active(inner[n])
          /\ is_hotfix(last.pre[o])
          /\ is_enabled(last.pre[o])
          /\ last.height = ActHeight(o)
          /\ ~is_active(inner[o])

\* the configuration handed to load lists some name more than once
ListsNameTwice ==
    \E i, j \in 1..Len(last.config.migrations) :
        i < j /\ last.config.migrations[i].name = last.config.migrations[j].name

(***************************************************************************)
(* C23: the set holds at most one migration per name in every reachable    *)
(* state: it is keyed by name and each instance carries the descriptor of  *)
(* its key.  A configuration that lists a name more than once is loaded    *)
(* like any other (it fails only for an unresolved name or a missing name  *)
(* under strict) and the set keeps one instance of the name, built from    *)
(* the last entry that lists it.  hotfix invokes at most one transform,    *)
(* and only of the queried name; update_at_height invokes at most one hook *)
(* per name per call.                                                      *)
(***************************************************************************)
C23_OneInstancePerName ==
    /\ \A n \in DOMAIN inner : inner[n].migration.name = n
    /\ (IsLoad /\ ListsNameTwice) =>
          /\ last.result.ok <=>
                (Unresolved = {} /\ (is_strict(last.config) => MissingNames = {}))
          /\ last.result.ok =>
                /\ DOMAIN inner = ConfigNames
                /\ Cardinality(DOMAIN inner) < Len(last.config.migrations)
                /\ \A n \in DOMAIN inner :
                      LET entries == last.config.migrations
                      IN  \E i \in 1..Len(entries) :
                             /\ entries[i].name = n
                             /\ \A j \in (i + 1)..Len(entries) : entries[j].name # n
                             /\ inner[n].metadata = entries[i].metadata
                             /\ is_enabled(inner[n]) = ~entries[i].metadata.disabled
    /\ IsHotfix =>
          /\ Len(last.calls) <= 1
          /\ \A c \in Range(last.calls) : c.name = last.name
    /\ IsUpdate => \A n \in DOMAIN last.pre : Len(CallsOf(n)) <= 1

\* load accepted a configuration that lists one name twice, with different
\* metadata, and built the instance from the second entry
C23_Witness ==
    /\ IsLoad
    /\ last.result.ok
    /\ Len(last.config.migrations) = 2
    /\ last.config.migrations[1].name = last.config.migrations[2].name
    /\ last.config.migrations[1].metadata.disabled
    /\ ~last.config.migrations[2].metadata.disabled
    /\ \A n \in DOMAIN inner : is_enabled(inner[n])

(***************************************************************************)
(* C24: the direct entry points Migration::initialize(storage, h) and      *)
(* Migration::update(storage, h) change nothing of the migration and do    *)
(* not look at its active flag.  For a Regular migration, initialize       *)
(* invokes the initialize hook exactly when the migration is enabled and   *)
(* h equals its activation height, also when it is already active, and     *)
(* update invokes the update hook exactly when it is enabled and h is      *)
(* above its activation height; the call returns what the hook returns.    *)
(* In every other case, and for a Hotfix migration, which has no such      *)
(* hook, the call returns Ok and invokes nothing.                          *)
(***************************************************************************)
C24_DirectEntryPoints ==
    last.op \in {"initialize", "update"} =>
        LET self == last.pre[last.name]
            due == /\ is_enabled(self)
                   /\ IF last.op = "initialize"
                      THEN last.height = self.metadata.block_height
                      ELSE last.height > self.metadata.block_height
        IN  /\ inner = last.pre
            /\ IF due /\ is_regular(self)
               THEN /\ last.calls = << Call(last.name, last.op) >>
                    /\ last.result.ok \/ last.result.error = HookError(last.name, last.op)
               ELSE /\ last.calls = <<>>
                    /\ last.result.ok

\* the direct initialize entry point invoked the hook of a migration that
\* is already active
C24_Witness ==
    /\ last.op = "initialize"
    /\ is_active(last.pre[last.name])
    /\ last.calls = << Call(last.name, "initialize") >>
    /\ initCount[last.name] = 1

====
